---- MODULE Spec2Model ----
(***************************************************************************)
(* Model of cync's replication engine (src/cync/handler.py,                *)
(* ScpGitEventHandler) and of the way src/cync/__main__.py constructs it.  *)
(*                                                                         *)
(* Python strings are sequences of one-character strings, so that          *)
(* str.replace, str.split, str.endswith, the `in` test and pathlib's       *)
(* joining are computed the way the interpreter computes them.             *)
(***************************************************************************)
EXTENDS Integers, Sequences, FiniteSets, TLC

(***************************************************************************)
(* Python str primitives                                                   *)
(***************************************************************************)

\* s[i:] for a 1-based i
DropTo(s, i) == SubSeq(s, i, Len(s))

\* s.startswith(p)
StartsWith(s, p) == Len(p) <= Len(s) /\ SubSeq(s, 1, Len(p)) = p

\* s.endswith(p)
EndsWith(s, p) == Len(p) <= Len(s) /\ SubSeq(s, Len(s) - Len(p) + 1, Len(s)) = p

\* sub in s
Contains(s, sub) == \E i \in 1..(Len(s) - Len(sub) + 1) : SubSeq(s, i, i + Len(sub) - 1) = sub

\* s.replace(old, ""): every non-overlapping occurrence, left to right
RECURSIVE StrRemove(_, _)
StrRemove(s, old) ==
    IF Len(s) = 0 \/ Len(old) = 0 THEN s
    ELSE IF StartsWith(s, old) THEN StrRemove(DropTo(s, Len(old) + 1), old)
    ELSE <<s[1]>> \o StrRemove(DropTo(s, 2), old)

\* index of the first occurrence of the character c in s from i on, 0 when absent
RECURSIVE FindChar(_, _, _)
FindChar(s, c, i) ==
    IF i > Len(s) THEN 0
    ELSE IF s[i] = c THEN i
    ELSE FindChar(s, c, i + 1)

\* the part of s before the position k of a separator (all of s when k = 0)
Before(s, k) == IF k = 0 THEN s ELSE SubSeq(s, 1, k - 1)

\* the part of s after the position k of a separator (nothing when k = 0)
After(s, k) == IF k = 0 THEN <<>> ELSE DropTo(s, k + 1)

\* s.split(c, 1): one or two pieces
Split1(s, c) ==
    IF FindChar(s, c, 1) = 0 THEN <<s>>
    ELSE <<Before(s, FindChar(s, c, 1)), After(s, FindChar(s, c, 1))>>

(***************************************************************************)
(* pathlib.PurePosixPath                                                   *)
(***************************************************************************)

\* a component in front of the components that follow: "" and "." are dropped
PartsCons(head, parts) ==
    IF head = <<>> \/ head = <<".">> THEN parts ELSE <<head>> \o parts

\* the components of s: split on "/", empty and "." components dropped
RECURSIVE PathParts(_)
PathPartsAt(s, k) == PartsCons(Before(s, k), PathParts(After(s, k)))

PathParts(s) == IF Len(s) = 0 THEN <<>> ELSE PathPartsAt(s, FindChar(s, "/", 1))

PathIsAbs(s) == Len(s) > 0 /\ s[1] = "/"

RECURSIVE JoinParts(_)
JoinParts(parts) ==
    IF Len(parts) = 0 THEN <<>>
    ELSE IF Len(parts) = 1 THEN parts[1]
    ELSE parts[1] \o <<"/">> \o JoinParts(Tail(parts))

\* str(Path(...)) from the anchor and the components
PathStr(abs, parts) ==
    IF abs THEN <<"/">> \o JoinParts(parts)
    ELSE IF Len(parts) = 0 THEN <<".">>
    ELSE JoinParts(parts)

\* str(Path(s))
PathNorm(s) == PathStr(PathIsAbs(s), PathParts(s))

\* str(Path(a) / b): an absolute b replaces a
PathJoin(a, b) ==
    IF PathIsAbs(b) THEN PathNorm(b)
    ELSE PathStr(PathIsAbs(a), PathParts(a) \o PathParts(b))

\* all but the last component; no component has no parent but itself
ParentParts(parts) == IF Len(parts) = 0 THEN parts ELSE SubSeq(parts, 1, Len(parts) - 1)

\* str(Path(s).parent)
PathParent(s) == PathStr(PathIsAbs(s), ParentParts(PathParts(s)))

(***************************************************************************)
(* Configuration: the command line of __main__.py                          *)
(***************************************************************************)

\* path argument, after __main__ appended the trailing "/"
host_directory == <<"/", "w", "/">>

\* --extensions after split(",") and strip()
_extensions == {<<"p", "y">>, <<"s", "h">>, <<"t", "x", "t">>}

\* user_and_domain used by a target that has no ":"
DefaultUserAndDomain == <<"t", "i", "t", "a", "n", "@", "l", "o", "c", "a", "l", "h", "o", "s", "t">>

\* target descriptors
T_h    == <<"h", ":", "/", "r", "/">>
T_u_h  == <<"u", "@", "h", ":", "/", "r", "/">>
T_g    == <<"g", ":", "/", "q", "/">>
T_bare == <<"/", "r", "/">>

\* the target lists the handler is constructed with
TargetConfigs == {<<T_h>>, <<T_u_h, T_g>>, <<T_bare>>}

\* local paths the watch collaborator reports
P_a_txt  == <<"/", "w", "/", "a", ".", "t", "x", "t">>
P_a_py   == <<"/", "w", "/", "s", "r", "c", "/", "a", ".", "p", "y">>
P_c_py   == <<"/", "w", "/", "s", "r", "c", "/", "s", "u", "b", "/", "c", ".", "p", "y">>
P_sub    == <<"/", "w", "/", "s", "u", "b">>
P_numpy  == <<"/", "w", "/", "n", "u", "m", "p", "y">>
P_b_py   == <<"/", "w", "/", "d", "/", "w", "/", "b", ".", "p", "y">>
P_run_sh == <<"/", "w", "/", "r", "u", "n", ".", "s", "h">>
P_a_bak  == <<"/", "w", "/", "a", ".", "b", "a", "k">>
P_env    == <<"/", "w", "/", ".", "e", "n", "v", "/", "a", ".", "p", "y">>
P_dots   == <<"/", "w", "/", ".", ".", ".", "/", "c", ".", "p", "y">>

LocalPaths == {P_a_txt, P_a_py, P_c_py, P_sub, P_numpy, P_b_py, P_run_sh, P_a_bak, P_env,
               P_dots}

\* the paths of the modified and of the deleted events
ModifiedPaths == {P_a_txt, P_run_sh, P_numpy, P_a_bak}
DeletedPaths  == {P_a_py, P_sub, P_numpy, P_b_py, P_env}

\* the local paths that are directories
LocalDirs == {P_sub, P_numpy}

\* (source, destination) pairs of the moved events
MovePairs == {<<P_a_txt, P_run_sh>>, <<P_a_py, P_c_py>>, <<P_a_py, P_a_bak>>,
              <<P_a_bak, P_a_py>>, <<P_numpy, P_sub>>, <<P_a_txt, P_env>>}

\* repo.untracked_files: paths relative to the repository root
U_n_txt == <<"n", ".", "t", "x", "t">>
U_u_py  == <<"s", "r", "c", "/", "u", ".", "p", "y">>

UntrackedChoices == {<<>>, <<U_n_txt>>, <<U_u_py, U_n_txt>>}

Branches == {"main", "dev"}

\* initial_branch passed by __main__
InitialBranch == ""

\* str.endswith(".sh") suffix of _scp_file
ShSuffix == <<".", "s", "h">>

\* None
None == <<>>

(***************************************************************************)
(* State of one ScpGitEventHandler and of its collaborators                *)
(***************************************************************************)

VARIABLES
    targets,                  \* self.targets
    _ssh_clients,             \* self._ssh_clients: domain -> "connected" | "unconnected"
    _scp_clients,             \* keys of self._scp_clients
    _dirs_exists_on_targets,  \* self._dirs_exists_on_targets: domain -> set of paths
    _current_branch,          \* self._current_branch
    _ignore_everything,       \* self._ignore_everything
    active_branch,            \* repo.active_branch of the watched repository
    call,                     \* the last method invoked and its arguments
    trace,                    \* what the last invocation did, in order
    raised,                   \* whether the last invocation ended in an exception
    resets,                   \* completed reset_targets calls since active_branch last changed
    ensured,                  \* the calls of EnsureParent that have returned
    main_thread,              \* where the thread running cync() is
    observer_thread           \* what the watchdog observer thread is doing

vars == <<targets, _ssh_clients, _scp_clients, _dirs_exists_on_targets, _current_branch,
          _ignore_everything, active_branch, call, trace, raised, resets, ensured,
          main_thread, observer_thread>>

\* cap of the resets counter
MaxResets == 2

\* one entry of the trace
Step(op, host, sudo, cmd, path, src, cds, branch, ok) ==
    [op |-> op, host |-> host, sudo |-> sudo, cmd |-> cmd, path |-> path,
     src |-> src, cds |-> cds, branch |-> branch, ok |-> ok]

FlagStep(v)             == Step("flag", None, None, "", None, None, <<>>, "", v)
PushStep(b, ok)         == Step("push", None, None, "", None, None, <<>>, b, ok)
BranchStep(b)           == Step("branch", None, None, "", None, None, <<>>, b, TRUE)
ConnectStep(d, ok)      == Step("connect", d, None, "", None, None, <<>>, "", ok)
ExecStep(d, u, c, p)    == Step("exec", d, u, c, p, None, <<>>, "", TRUE)
GitStep(d, u, cds, b)   == Step("exec", d, u, "git", None, None, cds, b, TRUE)
PutStep(d, src, p, ok)  == Step("put", d, None, "", p, src, <<>>, "", ok)

\* entry of _create_parent_dir_if_necessary(d, base, relative); ok: found in the cache
EnsureStep(d, base, relative, ok) ==
    Step("ensure", d, None, "", base, relative, <<>>, "", ok)

\* the events of watchdog.events
Event(kind, src, dest, isdir) ==
    [kind |-> kind, src_path |-> src, dest_path |-> dest, is_directory |-> isdir]

FileCreatedEvent(src) == Event("created", src, None, FALSE)
FileDeletedEvent(src) == Event("deleted", src, None, FALSE)

NoEvent == Event("", None, None, FALSE)

\* what the environment makes fail during one invocation
NoFault         == [kind |-> "none", host |-> None, n |-> 0]
ConnectFault(d) == [kind |-> "connect", host |-> d, n |-> 0]
PutFault(n)     == [kind |-> "put", host |-> None, n |-> n]
PushFault       == [kind |-> "push", host |-> None, n |-> 0]

\* an exception propagates: every later statement of the invocation is skipped
Raise(st) == [st EXCEPT !.err = TRUE]

Log(st, step) == [st EXCEPT !.trace = Append(@, step)]

(***************************************************************************)
(* Target descriptor parsing, as repeated inline in the four methods       *)
(***************************************************************************)

Parsed(user, domain, host_parent_dir) ==
    [ok |-> TRUE, user |-> user, domain |-> domain, host_parent_dir |-> host_parent_dir]

\* if "@" in user_and_domain: ... else: user = None
SplitUser(user_and_domain, host_parent_dir) ==
    IF Contains(user_and_domain, <<"@">>)
    THEN Parsed(Split1(user_and_domain, "@")[1], Split1(user_and_domain, "@")[2],
                host_parent_dir)
    ELSE Parsed(None, user_and_domain, host_parent_dir)

\* _ssh_cmd, ssh_mkdir, _scp_file
ParseTarget(target) ==
    IF Contains(target, <<":">>)
    THEN SplitUser(Split1(target, ":")[1], Split1(target, ":")[2])
    ELSE SplitUser(DefaultUserAndDomain, target)

\* _ssh_rm: unpacks target.split(":", 1) without testing for ":"
ParseTargetRm(target) ==
    IF Len(Split1(target, ":")) = 2
    THEN SplitUser(Split1(target, ":")[1], Split1(target, ":")[2])
    ELSE [ok |-> FALSE, user |-> None, domain |-> None, host_parent_dir |-> None]

\* the hosts a target list connects to
DomainsOf(tgts) == {ParseTarget(tgts[i]).domain : i \in 1..Len(tgts)}

(***************************************************************************)
(* Connection pool                                                         *)
(***************************************************************************)

\* a pool that opens a new session at every request
_get_ssh_client_NoCache(st, domain) ==
    IF st.err THEN st
    ELSE IF st.fault = ConnectFault(domain)
    THEN Raise(Log([st EXCEPT !.ssh = (domain :> "unconnected") @@ @],
                   ConnectStep(domain, FALSE)))
    ELSE Log([st EXCEPT !.ssh = (domain :> "connected") @@ @], ConnectStep(domain, TRUE))

_get_ssh_client(st, domain) ==
    IF st.err THEN st
    ELSE IF domain \in DOMAIN st.ssh THEN st
    ELSE IF st.fault = ConnectFault(domain)
    THEN Raise(Log([st EXCEPT !.ssh = (domain :> "unconnected") @@ @],
                   ConnectStep(domain, FALSE)))
    ELSE Log([st EXCEPT !.ssh = (domain :> "connected") @@ @], ConnectStep(domain, TRUE))

\* SSHClient.exec_command: raises on a client that never connected
exec_command(st, domain, step) ==
    IF st.err THEN st
    ELSE IF st.ssh[domain] # "connected" THEN Raise(st)
    ELSE Log(st, step)

\* if user: ssh_client.exec_command(...)
exec_if_user(st, t, step) ==
    IF t.user # None THEN exec_command(st, t.domain, step) ELSE st

\* transport = ssh.get_transport(); assert transport is not None; SCPClient(transport)
NewScpClient(st, domain) ==
    IF st.err THEN st
    ELSE IF st.ssh[domain] # "connected" THEN Raise(st)
    ELSE [st EXCEPT !.scp = @ \cup {domain}]

_get_scp_client(st, domain) ==
    IF st.err THEN st
    ELSE IF domain \in st.scp THEN st
    ELSE NewScpClient(_get_ssh_client(st, domain), domain)

\* SCPClient.put: blocking, raises when the transfer fails
scp_put(st, domain, src, target_path) ==
    IF st.err THEN st
    ELSE IF st.fault = PutFault(st.nput + 1)
    THEN Raise(Log([st EXCEPT !.nput = @ + 1], PutStep(domain, src, target_path, FALSE)))
    ELSE Log([st EXCEPT !.nput = @ + 1], PutStep(domain, src, target_path, TRUE))

(***************************************************************************)
(* Remote operations, fanned out over self.targets                         *)
(***************************************************************************)

\* str(event.src_path).replace(self.host_directory, "")
RelativeSrcPath(src_path) == StrRemove(src_path, host_directory)

\* str(Path(host_parent_dir) / relative_src_path)
TargetPath(host_parent_dir, src_path) == PathJoin(host_parent_dir, RelativeSrcPath(src_path))

\* command = f"cd {host_parent_dir} && {command}"; command is [cds, branch]: the
\* "cd ... && " prefixes so far and the branch of the git chain
CdCommand(t, command) == [command EXCEPT !.cds = <<t.host_parent_dir>> \o @]

\* the body of the for loop of _ssh_cmd, command already prefixed
SshCmdTarget(st, t, command) ==
    exec_command(exec_if_user(_get_ssh_client(st, t.domain), t,
                              GitStep(t.domain, t.user, command.cds, command.branch)),
                 t.domain, GitStep(t.domain, None, command.cds, command.branch))

RECURSIVE _ssh_cmd_from(_, _, _)
_ssh_cmd_from(st, command, i) ==
    IF st.err \/ i > Len(targets) THEN st
    ELSE _ssh_cmd_from(SshCmdTarget(st, ParseTarget(targets[i]),
                                    CdCommand(ParseTarget(targets[i]), command)),
                       CdCommand(ParseTarget(targets[i]), command), i + 1)

_ssh_cmd(st, command) == _ssh_cmd_from(st, command, 1)

\* f"rm -{recursion_flag}f"
RmCommand(event) == IF event.is_directory THEN "rm -rf" ELSE "rm -f"

\* the body of the for loop of _ssh_rm once the target is unpacked
SshRmTarget(st, t, command, target_path) ==
    exec_command(exec_if_user(_get_ssh_client(st, t.domain), t,
                              ExecStep(t.domain, t.user, command, target_path)),
                 t.domain, ExecStep(t.domain, None, command, target_path))

\* the body of the for loop of _ssh_rm
SshRmParsed(st, event, t) ==
    IF ~t.ok THEN Raise(st)
    ELSE SshRmTarget(st, t, RmCommand(event), TargetPath(t.host_parent_dir, event.src_path))

RECURSIVE _ssh_rm_from(_, _, _)
_ssh_rm_from(st, event, i) ==
    IF st.err \/ i > Len(targets) THEN st
    ELSE _ssh_rm_from(SshRmParsed(st, event, ParseTargetRm(targets[i])), event, i + 1)

_ssh_rm(st, event) == _ssh_rm_from(st, event, 1)

\* the body of the for loop of ssh_mkdir
SshMkdirTarget(st, t, target_path) ==
    exec_command(exec_if_user(_get_ssh_client(st, t.domain), t,
                              ExecStep(t.domain, t.user, "mkdir -p", target_path)),
                 t.domain, ExecStep(t.domain, None, "mkdir -p", target_path))

SshMkdirParsed(st, src_path, t) ==
    SshMkdirTarget(st, t, TargetPath(t.host_parent_dir, src_path))

RECURSIVE ssh_mkdir_from(_, _, _)
ssh_mkdir_from(st, src_path, i) ==
    IF st.err \/ i > Len(targets) THEN st
    ELSE ssh_mkdir_from(SshMkdirParsed(st, src_path, ParseTarget(targets[i])), src_path, i + 1)

\* src_path: the event's src_path, or the string itself when called with a str
ssh_mkdir(st, src_path) == ssh_mkdir_from(st, src_path, 1)

(***************************************************************************)
(* Directory presence cache                                                *)
(***************************************************************************)

\* self._dirs_exists_on_targets[domain] of a defaultdict(set): the lookup creates the key
DirsLookup(st, domain) ==
    IF domain \in DOMAIN st.dirs THEN st
    ELSE [st EXCEPT !.dirs = (domain :> {}) @@ @]

\* the while loop of _create_parent_dir_if_necessary
RECURSIVE MarkPresent(_, _, _, _)
MarkPresent(st, domain, base, relative) ==
    IF st.err THEN st
    ELSE IF StrRemove(StrRemove(relative, <<".">>), <<"/">>) = <<>> THEN st
    ELSE MarkPresent([st EXCEPT !.dirs[domain] = @ \cup {PathJoin(base, relative)}],
                     domain, base, PathParent(relative))

\* a cache that marks a directory present without creating it
CreateParentDir_NoMkdir(st, domain, base, relative) ==
    IF PathJoin(base, relative) \in st.dirs[domain]
    THEN Log(st, EnsureStep(domain, base, relative, TRUE))
    ELSE MarkPresent(Log(st, EnsureStep(domain, base, relative, FALSE)),
                     domain, base, relative)

\* _create_parent_dir_if_necessary after the lookup of the domain's set
CreateParentDir(st, domain, base, relative) ==
    IF PathJoin(base, relative) \in st.dirs[domain]
    THEN Log(st, EnsureStep(domain, base, relative, TRUE))
    ELSE MarkPresent(ssh_mkdir(Log(st, EnsureStep(domain, base, relative, FALSE)), relative),
                     domain, base, relative)

_create_parent_dir_if_necessary(st, domain, base, relative) ==
    IF st.err THEN st
    ELSE CreateParentDir(DirsLookup(st, domain), domain, base, relative)

(***************************************************************************)
(* Upload                                                                  *)
(***************************************************************************)

\* if user: self._get_ssh_client(domain).exec_command('sudo su ... "chmod g+w ..."')
GrantGroupWrite(st, t, target_path) ==
    IF t.user # None
    THEN exec_command(_get_ssh_client(st, t.domain), t.domain,
                      ExecStep(t.domain, t.user, "chmod g+w", target_path))
    ELSE st

\* if target_path.endswith(".sh"): self._get_ssh_client(domain).exec_command("chmod +x ...")
MakeExecutable(st, t, target_path) ==
    IF EndsWith(target_path, ShSuffix)
    THEN exec_command(_get_ssh_client(st, t.domain), t.domain,
                      ExecStep(t.domain, None, "chmod +x", target_path))
    ELSE st

\* an upload that grants group-write after the file is up and makes it executable
\* before
ScpTarget_PutBetween(st, event, t, relative_src_path, target_path) ==
    GrantGroupWrite(
        scp_put(
            MakeExecutable(
                _create_parent_dir_if_necessary(
                    _get_scp_client(st, t.domain),
                    t.domain, PathNorm(t.host_parent_dir), PathParent(relative_src_path)),
                t, target_path),
            t.domain, event.src_path, target_path),
        t, target_path)

\* the body of the for loop of _scp_file once the paths are computed
ScpTarget(st, event, t, relative_src_path, target_path) ==
    MakeExecutable(
        scp_put(
            GrantGroupWrite(
                _create_parent_dir_if_necessary(
                    _get_scp_client(st, t.domain),
                    t.domain, PathNorm(t.host_parent_dir), PathParent(relative_src_path)),
                t, target_path),
            t.domain, event.src_path, target_path),
        t, target_path)

\* the body of the for loop of _scp_file for a parsed target
ScpParsed(st, event, t) ==
    ScpTarget(st, event, t, RelativeSrcPath(event.src_path),
              TargetPath(t.host_parent_dir, event.src_path))

RECURSIVE _scp_file_from(_, _, _)
_scp_file_from(st, event, i) ==
    IF st.err \/ i > Len(targets) THEN st
    ELSE _scp_file_from(ScpParsed(st, event, ParseTarget(targets[i])), event, i + 1)

_scp_file(st, event) ==
    IF st.err THEN st
    ELSE IF event.is_directory THEN Raise(st)
    ELSE _scp_file_from(st, event, 1)

(***************************************************************************)
(* Event classifier and dispatcher                                         *)
(***************************************************************************)

_is_git_path(event) == Contains(event.src_path, <<".", "g", "i", "t">>)

_on_git_event(st, event) == st

_is_bad_path(event) ==
    \/ ~(\E e \in _extensions : EndsWith(event.src_path, e))
    \/ Contains(event.src_path, <<".", "p", "y", "c">>)
    \/ Contains(event.src_path, <<".", "e", "n", "v", "/">>)
    \/ Contains(event.src_path, <<"_", "_", "p", "y", "c", "a", "c", "h", "e", "_", "_">>)
    \/ Contains(event.src_path, <<".", "e", "g", "g">>)

\* a classifier that forgets the suppression flag
Skips_BadPathOnly(st, event) == _is_bad_path(event)

\* if self._is_bad_path(event) or self._ignore_everything: return
Skips(st, event) == _is_bad_path(event) \/ st.ign

\* if self._is_git_path(event): self._on_git_event(event)
GitHook(st, event) == IF _is_git_path(event) THEN _on_git_event(st, event) ELSE st

CreatedBody(st, event) ==
    IF Skips(st, event) THEN st
    ELSE IF event.is_directory THEN ssh_mkdir(st, event.src_path)
    ELSE _scp_file(st, event)

on_created(st, event) ==
    IF st.err THEN st ELSE CreatedBody(GitHook(st, event), event)

DeletedBody(st, event) ==
    IF Skips(st, event) THEN st ELSE _ssh_rm(st, event)

on_deleted(st, event) ==
    IF st.err THEN st ELSE DeletedBody(GitHook(st, event), event)

ModifiedBody(st, event) ==
    IF Skips(st, event) THEN st
    ELSE IF ~event.is_directory THEN _scp_file(st, event)
    ELSE st

on_modified(st, event) ==
    IF st.err THEN st ELSE ModifiedBody(GitHook(st, event), event)

\* a dispatcher that creates the destination before it deletes the source
MovedBody_CreateFirst(st, event) ==
    IF Skips(st, event) THEN st
    ELSE on_deleted(on_created(st, FileCreatedEvent(event.dest_path)),
                    FileDeletedEvent(event.src_path))

MovedBody(st, event) ==
    IF Skips(st, event) THEN st
    ELSE on_created(on_deleted(st, FileDeletedEvent(event.src_path)),
                    FileCreatedEvent(event.dest_path))

on_moved(st, event) ==
    IF st.err THEN st ELSE MovedBody(GitHook(st, event), event)

(***************************************************************************)
(* Branch reconciliation                                                   *)
(***************************************************************************)

\* repo.remote().push(force=True).raise_if_error()
git_push(st, current_branch) ==
    IF st.err THEN st
    ELSE IF st.fault = PushFault THEN Raise(Log(st, PushStep(current_branch, FALSE)))
    ELSE Log(st, PushStep(current_branch, TRUE))

\* for untracked_file in repo.untracked_files: self._scp_file(FileCreatedEvent(...))
RECURSIVE UploadUntracked(_, _, _)
UploadUntracked(st, untracked_files, k) ==
    IF st.err \/ k > Len(untracked_files) THEN st
    ELSE UploadUntracked(_scp_file(st, FileCreatedEvent(untracked_files[k])),
                         untracked_files, k + 1)

\* self._ignore_everything = v
SetIgnore(st, v) ==
    IF st.err THEN st ELSE Log([st EXCEPT !.ign = v], FlagStep(v))

\* self._current_branch = b
SetBranch(st, b) ==
    IF st.err THEN st ELSE Log([st EXCEPT !.branch = b], BranchStep(b))

\* the chained command of lines 63-73, before any "cd" prefix
GitChain(current_branch) == [cds |-> <<>>, branch |-> current_branch]

\* a reconciliation that lowers the flag before it uploads the untracked files
reset_targets_LowerEarly(st, current_branch, untracked_files) ==
    IF current_branch # st.branch
    THEN SetBranch(
            UploadUntracked(
                SetIgnore(
                    _ssh_cmd(git_push(SetIgnore(st, TRUE), current_branch),
                             GitChain(current_branch)),
                    FALSE),
                untracked_files, 1),
            current_branch)
    ELSE st

\* a reconciliation that does not compare the branch with the last reconciled one
reset_targets_Always(st, current_branch, untracked_files) ==
    SetBranch(
        SetIgnore(
            UploadUntracked(
                _ssh_cmd(git_push(SetIgnore(st, TRUE), current_branch),
                         GitChain(current_branch)),
                untracked_files, 1),
            FALSE),
        current_branch)

reset_targets(st, current_branch, untracked_files) ==
    IF current_branch # st.branch
    THEN SetBranch(
            SetIgnore(
                UploadUntracked(
                    _ssh_cmd(git_push(SetIgnore(st, TRUE), current_branch),
                             GitChain(current_branch)),
                    untracked_files, 1),
                FALSE),
            current_branch)
    ELSE st

(***************************************************************************)
(* The state machine: one action per public method, one for the user       *)
(* switching the branch of the watched repository                          *)
(***************************************************************************)

EmptyDict == [d \in {} |-> {}]

\* a cync() that starts the observer before it reconciles
MainProgram_StartFirst == <<"schedule", "start", "reset_targets", "loop">>

\* the statements of cync() from observer.schedule on, in program order
MainProgram == <<"schedule", "reset_targets", "start", "loop">>

\* event.is_directory: File*Event or Dir*Event, by what the local entry is
IsDirectory(p) == p \in LocalDirs

Events(kind, paths) == {Event(kind, p, None, IsDirectory(p)) : p \in paths}

MovedEvents == {Event("moved", pr[1], pr[2], IsDirectory(pr[1])) : pr \in MovePairs}

\* the failures the environment can cause in an invocation that uploads at most nputs files
Faults(nputs) ==
    {NoFault} \cup {ConnectFault(d) : d \in DomainsOf(targets)}
              \cup {PutFault(n) : n \in 1..nputs}

Call(op, event, untracked_files, target) ==
    [op |-> op, ev |-> event, untracked |-> untracked_files, target |-> target]

\* no method is running: the record of the last invocation has been dropped
Idle == Call("idle", NoEvent, <<>>, None)

\* the handler's fields on entry to a method
Start(fault) ==
    [ssh |-> _ssh_clients, scp |-> _scp_clients, dirs |-> _dirs_exists_on_targets,
     ign |-> _ignore_everything, branch |-> _current_branch,
     trace |-> <<>>, err |-> FALSE, fault |-> fault, nput |-> 0]

\* the handler's fields when the method returns or raises
Finish(st, c) ==
    /\ call = Idle
    /\ _ssh_clients' = st.ssh
    /\ _scp_clients' = st.scp
    /\ _dirs_exists_on_targets' = st.dirs
    /\ _ignore_everything' = st.ign
    /\ _current_branch' = st.branch
    /\ trace' = st.trace
    /\ raised' = st.err
    /\ call' = c
    /\ UNCHANGED <<targets, active_branch, main_thread, observer_thread>>

Init ==
    /\ targets \in TargetConfigs
    /\ _ssh_clients = EmptyDict
    /\ _scp_clients = {}
    /\ _dirs_exists_on_targets = EmptyDict
    /\ _current_branch = InitialBranch
    /\ _ignore_everything = FALSE
    /\ active_branch \in Branches
    /\ call = Idle
    /\ trace = <<>>
    /\ raised = FALSE
    /\ resets = 0
    /\ ensured = {}
    /\ main_thread = [pc |-> Len(MainProgram), step |-> "enter"]
    /\ observer_thread = "idle"

OnCreated ==
    \E event \in Events("created", LocalPaths) : \E fault \in Faults(Len(targets)) :
        LET st == on_created(Start(fault), event)
        IN  /\ Finish(st, Call("on_created", event, <<>>, None))
            /\ UNCHANGED <<resets, ensured>>

OnModified ==
    \E event \in Events("modified", ModifiedPaths) : \E fault \in Faults(Len(targets)) :
        LET st == on_modified(Start(fault), event)
        IN  /\ Finish(st, Call("on_modified", event, <<>>, None))
            /\ UNCHANGED <<resets, ensured>>

OnDeleted ==
    \E event \in Events("deleted", DeletedPaths) : \E fault \in Faults(Len(targets)) :
        LET st == on_deleted(Start(fault), event)
        IN  /\ Finish(st, Call("on_deleted", event, <<>>, None))
            /\ UNCHANGED <<resets, ensured>>

OnMoved ==
    \E event \in MovedEvents : \E fault \in Faults(Len(targets)) :
        LET st == on_moved(Start(fault), event)
        IN  /\ Finish(st, Call("on_moved", event, <<>>, None))
            /\ UNCHANGED <<resets, ensured>>

ResetTargets ==
    \E untracked_files \in UntrackedChoices :
    \E fault \in Faults(Len(targets) * Len(untracked_files)) \cup {PushFault} :
        LET st == reset_targets(Start(fault), active_branch, untracked_files)
        IN  /\ Finish(st, Call("reset_targets", NoEvent, untracked_files, None))
            /\ resets' = IF st.err \/ resets = MaxResets THEN resets ELSE resets + 1
            /\ UNCHANGED ensured

\* the user checks out another branch in the watched repository
Checkout ==
    /\ call = Idle
    /\ \E b \in Branches \ {active_branch} : active_branch' = b
    /\ resets' = 0
    /\ UNCHANGED <<targets, _ssh_clients, _scp_clients, _dirs_exists_on_targets,
                   _current_branch, _ignore_everything, call, trace, raised, ensured,
                   main_thread, observer_thread>>

\* the method has returned or raised; its caller goes on and the next call starts
\* from the handler's fields alone
Return ==
    /\ call # Idle
    /\ call' = Idle
    /\ trace' = <<>>
    /\ raised' = FALSE
    /\ UNCHANGED <<targets, _ssh_clients, _scp_clients, _dirs_exists_on_targets,
                   _current_branch, _ignore_everything, active_branch, resets, ensured,
                   main_thread, observer_thread>>

Next ==
    OnCreated \/ OnModified \/ OnDeleted \/ OnMoved \/ ResetTargets \/ Checkout \/ Return

Spec == Init /\ [][Next]_vars

(***************************************************************************)
(* The directory presence cache on its own: the calls _scp_file makes to   *)
(* _create_parent_dir_if_necessary, one call per step, with the history of *)
(* the calls that returned. The fields an upload leaves when its put fails *)
(* are the fields this call leaves.                                        *)
(***************************************************************************)

\* the files whose parent directory is asked for
EnsurePaths == {P_a_txt, P_a_py, P_c_py, P_b_py, P_dots, U_n_txt, U_u_py}

\* the call of lines 256-261 for a parsed target
EnsureParsed(st, src_path, t) ==
    _create_parent_dir_if_necessary(_get_scp_client(st, t.domain), t.domain,
                                    PathNorm(t.host_parent_dir),
                                    PathParent(RelativeSrcPath(src_path)))

\* what the call was for
EnsuredOf(src_path, t) ==
    [host |-> t.domain, root |-> PathNorm(t.host_parent_dir),
     dir |-> PathParent(RelativeSrcPath(src_path))]

EnsureParent ==
    \E k \in 1..Len(targets) : \E src_path \in EnsurePaths :
    \E fault \in {NoFault} \cup {ConnectFault(d) : d \in DomainsOf(targets)} :
        LET st == EnsureParsed(Start(fault), src_path, ParseTarget(targets[k]))
        IN  /\ Finish(st, Call("ensure", FileCreatedEvent(src_path), <<>>, targets[k]))
            /\ ensured' = IF st.err THEN ensured
                          ELSE ensured \cup {EnsuredOf(src_path, ParseTarget(targets[k]))}
            /\ UNCHANGED resets

NextEnsure == EnsureParent \/ Return

SpecEnsure == Init /\ [][NextEnsure]_vars

(***************************************************************************)
(* The process: the main thread runs cync(), the observer thread delivers  *)
(* the events to the handler once observer.start() has run. A statement of *)
(* reset_targets is one step of the main thread; an event handler is two   *)
(* steps of the observer thread, the test of its first lines and the       *)
(* remote operations that follow it.                                       *)
(***************************************************************************)

\* the main thread is at the step of the statement stmt
At(stmt, step) ==
    /\ main_thread.pc \in 1..Len(MainProgram)
    /\ MainProgram[main_thread.pc] = stmt
    /\ main_thread.step = step

\* the next statement of cync()
Advance == [pc |-> main_thread.pc + 1, step |-> "enter"]

\* an exception leaves cync(), or cync() returns: the process ends
Exited == [pc |-> 0, step |-> "exited"]

\* the fields a method leaves in the handler
Store(st) ==
    /\ _ssh_clients' = st.ssh
    /\ _scp_clients' = st.scp
    /\ _dirs_exists_on_targets' = st.dirs
    /\ _ignore_everything' = st.ign
    /\ _current_branch' = st.branch

\* the main thread goes on to next; an exception ends the process, and with it the
\* observer thread, which is a daemon thread
MainStep(st, next) ==
    /\ Store(st)
    /\ main_thread' = IF st.err THEN Exited ELSE next
    /\ observer_thread' = IF st.err /\ observer_thread # "unstarted" THEN "stopped"
                          ELSE observer_thread
    /\ UNCHANGED <<targets, active_branch, call, trace, raised, resets, ensured>>

\* FileSystemEventHandler.dispatch
dispatch(st, event) ==
    CASE event.kind = "created" -> on_created(st, event)
      [] event.kind = "modified" -> on_modified(st, event)
      [] event.kind = "deleted" -> on_deleted(st, event)
      [] OTHER -> on_moved(st, event)

\* the events the observer delivers
ObservedEvents ==
    Events("created", LocalPaths) \cup Events("modified", ModifiedPaths)
        \cup Events("deleted", DeletedPaths) \cup MovedEvents

InitThreads ==
    /\ targets \in TargetConfigs
    /\ _ssh_clients = EmptyDict
    /\ _scp_clients = {}
    /\ _dirs_exists_on_targets = EmptyDict
    /\ _current_branch = InitialBranch
    /\ _ignore_everything = FALSE
    /\ active_branch \in Branches
    /\ call = Idle
    /\ trace = <<>>
    /\ raised = FALSE
    /\ resets = 0
    /\ ensured = {}
    /\ main_thread = [pc |-> 1, step |-> "enter"]
    /\ observer_thread = "unstarted"

\* observer.schedule(event_handler, path, recursive=True)
MainSchedule ==
    /\ At("schedule", "enter")
    /\ main_thread' = Advance
    /\ UNCHANGED <<targets, _ssh_clients, _scp_clients, _dirs_exists_on_targets,
                   _current_branch, _ignore_everything, active_branch, call, trace,
                   raised, resets, ensured, observer_thread>>

\* if reset_targets: with the option not given
MainResetSkipped ==
    /\ At("reset_targets", "enter")
    /\ main_thread' = Advance
    /\ UNCHANGED <<targets, _ssh_clients, _scp_clients, _dirs_exists_on_targets,
                   _current_branch, _ignore_everything, active_branch, call, trace,
                   raised, resets, ensured, observer_thread>>

\* reset_targets, lines 50-58: the test of the branch and the raising of the flag
MainResetRaise ==
    /\ At("reset_targets", "enter")
    /\ IF active_branch # _current_branch
       THEN MainStep(SetIgnore(Start(NoFault), TRUE), [main_thread EXCEPT !.step = "push"])
       ELSE MainStep(Start(NoFault), Advance)

\* reset_targets, line 60
MainResetPush ==
    /\ At("reset_targets", "push")
    /\ \E fault \in {NoFault, PushFault} :
          MainStep(git_push(Start(fault), active_branch),
                   [main_thread EXCEPT !.step = "chain"])

\* reset_targets, lines 62-73
MainResetChain ==
    /\ At("reset_targets", "chain")
    /\ \E fault \in {NoFault} \cup {ConnectFault(d) : d \in DomainsOf(targets)} :
          MainStep(_ssh_cmd(Start(fault), GitChain(active_branch)),
                   [main_thread EXCEPT !.step = "upload"])

\* reset_targets, lines 76-77
MainResetUpload ==
    /\ At("reset_targets", "upload")
    /\ \E untracked_files \in UntrackedChoices :
       \E fault \in Faults(Len(targets) * Len(untracked_files)) :
          MainStep(UploadUntracked(Start(fault), untracked_files, 1),
                   [main_thread EXCEPT !.step = "lower"])

\* reset_targets, lines 79-80
MainResetLower ==
    /\ At("reset_targets", "lower")
    /\ MainStep(SetBranch(SetIgnore(Start(NoFault), FALSE), active_branch), Advance)

\* observer.start(): from here on the observer thread delivers events
MainStart ==
    /\ At("start", "enter")
    /\ main_thread' = Advance
    /\ observer_thread' = "idle"
    /\ UNCHANGED <<targets, _ssh_clients, _scp_clients, _dirs_exists_on_targets,
                   _current_branch, _ignore_everything, active_branch, call, trace,
                   raised, resets, ensured>>

\* KeyboardInterrupt in the sleep loop: observer.stop(), observer.join(), which waits
\* for the handler that is running, then event_handler.close()
MainInterrupt ==
    /\ At("loop", "enter")
    /\ observer_thread \in {"idle", "dead"}
    /\ main_thread' = Exited
    /\ observer_thread' = "stopped"
    /\ UNCHANGED <<targets, _ssh_clients, _scp_clients, _dirs_exists_on_targets,
                   _current_branch, _ignore_everything, active_branch, call, trace,
                   raised, resets, ensured>>

\* the first lines of an on_* method: an event that passes the path filter while the
\* flag is lowered goes on to its remote operations (a rejected event changes nothing)
ObserverAccept ==
    /\ observer_thread = "idle"
    /\ \E event \in ObservedEvents :
          /\ ~Skips(Start(NoFault), event)
          /\ call' = Call("dispatch", event, <<>>, None)
    /\ observer_thread' = "issuing"
    /\ UNCHANGED <<targets, _ssh_clients, _scp_clients, _dirs_exists_on_targets,
                   _current_branch, _ignore_everything, active_branch, trace,
                   raised, resets, ensured, main_thread>>

\* the remote operations of the accepted event; an exception ends the observer thread
ObserverIssue ==
    /\ observer_thread = "issuing"
    /\ \E fault \in Faults(Len(targets)) :
          LET st == dispatch([Start(fault) EXCEPT !.ign = FALSE], call.ev)
          IN  /\ _ssh_clients' = st.ssh
              /\ _scp_clients' = st.scp
              /\ _dirs_exists_on_targets' = st.dirs
              /\ observer_thread' = IF st.err THEN "dead" ELSE "idle"
    /\ call' = Idle
    /\ UNCHANGED <<targets, _current_branch, _ignore_everything, active_branch, trace,
                   raised, resets, ensured, main_thread>>

NextThreads ==
    \/ MainSchedule \/ MainResetSkipped \/ MainResetRaise \/ MainResetPush
    \/ MainResetChain \/ MainResetUpload \/ MainResetLower \/ MainStart
    \/ MainInterrupt \/ ObserverAccept \/ ObserverIssue

SpecThreads == InitThreads /\ [][NextThreads]_vars

(***************************************************************************)
(* Vocabulary of the properties                                            *)
(***************************************************************************)

EventOps == {"on_created", "on_modified", "on_deleted", "on_moved"}

\* the path filter lets the event through and the suppression flag is lowered
\* (no on_* method writes the flag, so its value is the one the method read)
Accepted(event) == ~_is_bad_path(event) /\ ~_ignore_everything

\* the targets are all of the form [user@]host:remote_root
WellFormedTargets == \A k \in 1..Len(targets) : Contains(targets[k], <<":">>)

HostOf(k) == ParseTarget(targets[k]).domain

RootOf(k) == ParseTarget(targets[k]).host_parent_dir

\* positions of a trace where a remote command or an upload was issued
RemotePositions(tr) == {i \in 1..Len(tr) : tr[i].op \in {"exec", "put"}}

\* positions of the unwrapped commands cmd on the path p of the host d
ExecPositions(tr, d, cmds, p) ==
    {i \in 1..Len(tr) : /\ tr[i].op = "exec"
                        /\ tr[i].host = d
                        /\ tr[i].sudo = None
                        /\ tr[i].cmd \in cmds
                        /\ tr[i].path = p}

\* positions of the upload attempts to the path p of the host d
PutPositions(tr, d, p) ==
    {i \in 1..Len(tr) : tr[i].op = "put" /\ tr[i].host = d /\ tr[i].path = p}

\* delete of the path p on the host d
DeletePositions(tr, d, p) == ExecPositions(tr, d, {"rm -f", "rm -rf"}, p)

\* create of the path p on the host d: an upload, or a directory creation
CreatePositions(tr, d, p) == PutPositions(tr, d, p) \cup ExecPositions(tr, d, {"mkdir -p"}, p)

\* relativize(P, W): P without its leading W
Relativize(p) == IF StartsWith(p, host_directory) THEN DropTo(p, Len(host_directory) + 1) ELSE p

\* R joined with relativize(P, W), for the k-th target
MappedPath(k, p) == PathJoin(RootOf(k), Relativize(p))

IsPrefix(a, b) == Len(a) <= Len(b) /\ SubSeq(b, 1, Len(a)) = a

(***************************************************************************)
(* C1                                                                      *)
(***************************************************************************)

\* C1: when the force-push of reset_targets fails, that reconciliation has sent no
\* remote command or upload to any target and the suppression flag is lowered
\* once reset_targets has exited.
C1_PushFailureLowersFlag ==
    (call.op = "reset_targets" /\ \E i \in 1..Len(trace) : trace[i] = PushStep(active_branch, FALSE))
        => (RemotePositions(trace) = {} /\ _ignore_everything = FALSE)

(***************************************************************************)
(* C2                                                                      *)
(***************************************************************************)

\* the k-th target got exactly one delete of A's mapped path, then exactly one
\* create of B's mapped path
OneDeleteThenOneCreate(k, a, b) ==
    /\ Cardinality(DeletePositions(trace, HostOf(k), TargetPath(RootOf(k), a))) = 1
    /\ Cardinality(CreatePositions(trace, HostOf(k), TargetPath(RootOf(k), b))) = 1
    /\ \A i \in DeletePositions(trace, HostOf(k), TargetPath(RootOf(k), a)) :
       \A j \in CreatePositions(trace, HostOf(k), TargetPath(RootOf(k), b)) : i < j

\* C2 as claimed: every accepted moved event A -> B gives every target exactly one
\* delete of A's mapped path followed by exactly one create of B's mapped path,
\* whatever the name or extension of B (here for the moves that ran to their end).
C2_MoveIsDeleteThenCreate ==
    (call.op = "on_moved" /\ Accepted(call.ev) /\ ~raised)
        => \A k \in 1..Len(targets) :
              OneDeleteThenOneCreate(k, call.ev.src_path, call.ev.dest_path)

\* the k-th target got at most one delete of A's mapped path and at most one create
\* of B's mapped path, and no create without an earlier delete
DeleteBeforeCreate(k, a, b) ==
    /\ Cardinality(DeletePositions(trace, HostOf(k), TargetPath(RootOf(k), a))) <= 1
    /\ Cardinality(CreatePositions(trace, HostOf(k), TargetPath(RootOf(k), b))) <= 1
    /\ \A j \in CreatePositions(trace, HostOf(k), TargetPath(RootOf(k), b)) :
       \E i \in DeletePositions(trace, HostOf(k), TargetPath(RootOf(k), a)) : i < j

\* C2 as amended: an accepted moved event A -> B gives every target at most one delete
\* of A's mapped path and at most one create of B's mapped path, never a create without
\* that target's delete before it; when on_moved returns without an exception it is
\* exactly one delete and, if B passes the path filter too, exactly one create
\* after it, and no create at all if B is rejected by the path filter.
C2_MoveIsDeleteThenCreateIfDestAccepted ==
    (call.op = "on_moved" /\ Accepted(call.ev))
        => \A k \in 1..Len(targets) :
              /\ DeleteBeforeCreate(k, call.ev.src_path, call.ev.dest_path)
              /\ (~raised /\ ~_is_bad_path(FileCreatedEvent(call.ev.dest_path)))
                    => OneDeleteThenOneCreate(k, call.ev.src_path, call.ev.dest_path)
              /\ (~raised /\ _is_bad_path(FileCreatedEvent(call.ev.dest_path)))
                    => /\ Cardinality(DeletePositions(trace, HostOf(k),
                                          TargetPath(RootOf(k), call.ev.src_path))) = 1
                       /\ CreatePositions(trace, HostOf(k),
                                          TargetPath(RootOf(k), call.ev.dest_path)) = {}

\* a move between two accepted paths has run to its end on two targets
C2_Witness ==
    /\ call.op = "on_moved"
    /\ Accepted(call.ev)
    /\ ~_is_bad_path(FileCreatedEvent(call.ev.dest_path))
    /\ ~raised
    /\ Len(targets) = 2
    /\ \A k \in 1..Len(targets) :
          OneDeleteThenOneCreate(k, call.ev.src_path, call.ev.dest_path)

(***************************************************************************)
(* C3                                                                      *)
(***************************************************************************)

\* C3: when the upload to one target fails during the fan-out of one dispatch, every
\* configured target, those later in the list included, still has its own upload
\* attempted.
C3_FailedUploadSparesSiblings ==
    (/\ call.op \in {"on_created", "on_modified"}
     /\ \E i \in 1..Len(trace) : trace[i].op = "put" /\ ~trace[i].ok)
        => \A k \in 1..Len(targets) :
              PutPositions(trace, HostOf(k), TargetPath(RootOf(k), call.ev.src_path)) # {}

(***************************************************************************)
(* C4                                                                      *)
(***************************************************************************)

\* C4: after session establishment for a host has failed, the next operation that
\* needs that host's session (here a delete that the classifier accepts, for the host
\* of the first target) attempts to connect again.
C4_FailedConnectIsRetried ==
    [][(/\ WellFormedTargets
        /\ HostOf(1) \in DOMAIN _ssh_clients
        /\ _ssh_clients[HostOf(1)] = "unconnected"
        /\ call'.op = "on_deleted"
        /\ Accepted(call'.ev))
          => \E i \in 1..Len(trace') : trace'[i].op = "connect" /\ trace'[i].host = HostOf(1)]_vars

(***************************************************************************)
(* C5                                                                      *)
(***************************************************************************)

\* the directory and its ancestors up to the root ".", for a relative directory
AncestorsOrSelf(dir) ==
    {PathStr(FALSE, SubSeq(PathParts(dir), 1, n)) : n \in 0..Len(PathParts(dir))}

\* a returned call e covers a call for the directory dir of the root of the host:
\* same host, same root, and dir is the directory of e or one of its ancestors
Covers(e, host, root, dir) ==
    /\ e.host = host
    /\ e.root = root
    /\ dir \in AncestorsOrSelf(e.dir)

\* the trace holds a remote create-directory command
IssuesMkdir(tr) == \E i \in 1..Len(tr) : tr[i].op = "exec" /\ tr[i].cmd = "mkdir -p"

\* C5: once _create_parent_dir_if_necessary has returned for (host, root, dir), a
\* later call on the same host and root for dir or any ancestor of dir, the target
\* root used by root-level files included, issues no remote create-directory call.
C5_EnsuredIsNeverRecreated ==
    [][(/\ call'.op = "ensure"
        /\ \E e \in ensured :
              Covers(e, EnsuredOf(call'.ev.src_path, ParseTarget(call'.target)).host,
                     EnsuredOf(call'.ev.src_path, ParseTarget(call'.target)).root,
                     EnsuredOf(call'.ev.src_path, ParseTarget(call'.target)).dir))
          => ~IssuesMkdir(trace')]_vars

(***************************************************************************)
(* C6                                                                      *)
(***************************************************************************)

\* C6: a deleted event for a directory under the watch root results in exactly one
\* recursive remote removal of the mapped path on each configured target.
C6_DirectoryDeleteIsRecursiveRemoval ==
    (/\ call.op = "on_deleted"
     /\ call.ev.is_directory
     /\ StartsWith(call.ev.src_path, host_directory)
     /\ WellFormedTargets
     /\ ~_ignore_everything
     /\ ~raised)
        => \A k \in 1..Len(targets) :
              Cardinality(ExecPositions(trace, HostOf(k), {"rm -rf"},
                                        MappedPath(k, call.ev.src_path))) = 1

(***************************************************************************)
(* C7                                                                      *)
(***************************************************************************)

\* C7: the remote path of every upload and of every removal of an event for a local
\* path P under the watch root W is, for the target it goes to, the target root R
\* joined with P made relative to W, only the leading W being removed.
C7_RemotePathIsRootPlusRelative ==
    (/\ call.op \in {"on_created", "on_modified", "on_deleted"}
     /\ StartsWith(call.ev.src_path, host_directory))
        => \A i \in 1..Len(trace) :
              (trace[i].op = "put" \/ (trace[i].op = "exec" /\ trace[i].cmd \in {"rm -f", "rm -rf"}))
                 => \E k \in 1..Len(targets) :
                       /\ trace[i].host = HostOf(k)
                       /\ trace[i].path = MappedPath(k, call.ev.src_path)

(***************************************************************************)
(* C8                                                                      *)
(***************************************************************************)

\* one step of a reconciliation, as the specification names them
Phase(kind, host, file, branch) == [kind |-> kind, host |-> host, file |-> file, branch |-> branch]

\* the step of the specification a trace entry belongs to
PhaseOf(s) ==
    CASE s.op = "flag" -> Phase(IF s.ok THEN "raise" ELSE "lower", None, None, "")
      [] s.op = "push" -> Phase("push", None, None, s.branch)
      [] s.op = "exec" -> Phase("chain", s.host, None, s.branch)
      [] s.op = "put" -> Phase("upload", s.host, s.src, "")
      [] OTHER -> Phase("set", None, None, s.branch)

\* the entries that are steps of their own: connection set-up, the directory creation,
\* the permission commands and the privilege-elevated copy of a command belong to the
\* step they serve
IsPhase(s) ==
    \/ s.op \in {"flag", "push", "put", "branch"}
    \/ (s.op = "exec" /\ s.cmd = "git" /\ s.sudo = None)

RECURSIVE Phases(_)
Phases(tr) ==
    IF tr = <<>> THEN <<>>
    ELSE IF IsPhase(Head(tr)) THEN <<PhaseOf(Head(tr))>> \o Phases(Tail(tr))
    ELSE Phases(Tail(tr))

\* the steps of section 4.6 for the branch b and the untracked files
ExpectedPhases(b, files) ==
    <<Phase("raise", None, None, ""), Phase("push", None, None, b)>>
    \o [k \in 1..Len(targets) |-> Phase("chain", HostOf(k), None, b)]
    \o [m \in 1..(Len(files) * Len(targets)) |->
            Phase("upload", HostOf(((m - 1) % Len(targets)) + 1),
                  files[((m - 1) \div Len(targets)) + 1], "")]
    \o <<Phase("lower", None, None, ""), Phase("set", None, None, b)>>

\* C8: a reconciliation whose active branch differs from the last reconciled branch
\* performs, in this order and with none skipped or reordered: flag raised, force-push,
\* one chain per target, upload of every untracked file to every target, flag lowered,
\* last reconciled branch set to the active branch. A reconciliation that an exception
\* ends has performed a prefix of these steps.
C8_ReconciliationOrder ==
    [][(call'.op = "reset_targets" /\ active_branch # _current_branch)
          => /\ IsPrefix(Phases(trace'), ExpectedPhases(active_branch, call'.untracked))
             /\ ~raised' => /\ Phases(trace') = ExpectedPhases(active_branch, call'.untracked)
                            /\ ~_ignore_everything'
                            /\ _current_branch' = active_branch]_vars

\* a reconciliation of two targets with two untracked files has run to its end
C8_Witness ==
    /\ call.op = "reset_targets"
    /\ ~raised
    /\ Len(targets) = 2
    /\ Len(call.untracked) = 2
    /\ Phases(trace) = ExpectedPhases(active_branch, call.untracked)
    /\ Len(Phases(trace)) = 10

(***************************************************************************)
(* C9                                                                      *)
(***************************************************************************)

\* C9: a reset_targets call that follows a completed reset_targets call, the active
\* branch not having changed in between, is a full no-op: no push, no remote command,
\* no upload, and the suppression flag, the last reconciled branch and all caches
\* are left as they were.
C9_SecondResetIsNoOp ==
    [][(call'.op = "reset_targets" /\ resets >= 1)
          => /\ trace' = <<>>
             /\ ~raised'
             /\ UNCHANGED <<_ignore_everything, _current_branch, _ssh_clients, _scp_clients,
                            _dirs_exists_on_targets>>]_vars

\* reset_targets has returned for the second time since the branch last changed
C9_Witness == call.op = "reset_targets" /\ resets >= 2 /\ trace = <<>>

(***************************************************************************)
(* C10                                                                     *)
(***************************************************************************)

\* C10: while the suppression flag is set, an event of any kind is rejected: the on_*
\* method issues no remote command and no upload, and changes neither the presence
\* cache nor the session caches.
C10_SuppressedEventsDoNothing ==
    [][(_ignore_everything /\ call'.op \in EventOps)
          => /\ trace' = <<>>
             /\ ~raised'
             /\ UNCHANGED <<_ssh_clients, _scp_clients, _dirs_exists_on_targets>>]_vars

\* an event the path filter lets through has been handled with the flag set
C10_Witness ==
    /\ _ignore_everything
    /\ call.op \in EventOps
    /\ ~_is_bad_path(call.ev)
    /\ trace = <<>>

(***************************************************************************)
(* C11                                                                     *)
(***************************************************************************)

\* positions of the git chains a trace sent to some host, wrapped or not
GitPositions(tr) == {i \in 1..Len(tr) : tr[i].op = "exec" /\ tr[i].cmd = "git"}

\* C11: every composite command reset_targets sends is built from the remote root
\* of the target it is sent to and the git chain alone: it is "cd <root> && <chain>"
\* for a target of that host, whatever the other targets are and whatever their order.
C11_ChainIsBuiltFromOwnRootOnly ==
    call.op = "reset_targets"
        => \A i \in GitPositions(trace) :
              \E k \in 1..Len(targets) :
                  /\ trace[i].host = HostOf(k)
                  /\ trace[i].cds = <<RootOf(k)>>
                  /\ trace[i].branch = active_branch

(***************************************************************************)
(* C12                                                                     *)
(***************************************************************************)

\* the path p is marked present for the host in the presence cache dirs
Marked(dirs, host, p) == host \in DOMAIN dirs /\ p \in dirs[host]

\* what the call of EnsureParent recorded in call was for
EnsureArgs(c) == EnsuredOf(c.ev.src_path, ParseTarget(c.target))

\* the directory and its ancestors below the root
BelowRoot(dir) == AncestorsOrSelf(dir) \ {PathStr(FALSE, <<>>)}

\* C12: a call of _create_parent_dir_if_necessary for a directory not yet marked
\* present for the host issues exactly one create-directory command (mkdir -p, not
\* counting its privilege-elevated copy) for that directory on that host, and then
\* the directory and each of its ancestors below the root are marked for that host.
C12_EnsureCreatesOnceAndMarks ==
    [][(/\ call'.op = "ensure"
        /\ ~raised'
        /\ ~Marked(_dirs_exists_on_targets, EnsureArgs(call').host,
                   PathJoin(EnsureArgs(call').root, EnsureArgs(call').dir)))
          => /\ Cardinality(ExecPositions(trace', EnsureArgs(call').host, {"mkdir -p"},
                                PathJoin(EnsureArgs(call').root, EnsureArgs(call').dir))) = 1
             /\ \A a \in BelowRoot(EnsureArgs(call').dir) :
                   Marked(_dirs_exists_on_targets', EnsureArgs(call').host,
                          PathJoin(EnsureArgs(call').root, a))]_vars

(***************************************************************************)
(* C13                                                                     *)
(***************************************************************************)

\* reset_targets has raised the suppression flag and has not lowered it yet
Reconciling ==
    \E step \in {"push", "chain", "upload", "lower"} : At("reset_targets", step)

\* C13: reconciliation and dispatch never run concurrently: in no state is an event
\* handler issuing the remote operations of an event while reset_targets is between
\* the raising and the lowering of the suppression flag.
C13_NoDispatchDuringReconciliation == ~(observer_thread = "issuing" /\ Reconciling)

\* a handler issues the remote operations of an event in a process whose
\* reconciliation has run to its end
C13_Witness ==
    /\ observer_thread = "issuing"
    /\ _current_branch = active_branch
    /\ ~_ignore_everything
    /\ DomainsOf(targets) \subseteq DOMAIN _ssh_clients

(***************************************************************************)
(* C14                                                                     *)
(***************************************************************************)

\* no session establishment has failed so far
NoFailedConnect == \A d \in DOMAIN _ssh_clients : _ssh_clients[d] = "connected"

\* the principal the operations other than the removal resolve the k-th target to
UserOf(k) == ParseTarget(targets[k]).user

\* positions of the removals of the path p on the host d issued as the principal u
RemovalsAs(tr, d, u, p) ==
    {i \in 1..Len(tr) : /\ tr[i].op = "exec"
                        /\ tr[i].host = d
                        /\ tr[i].sudo = u
                        /\ tr[i].cmd \in {"rm -f", "rm -rf"}
                        /\ tr[i].path = p}

\* C14: the remote removal resolves every target descriptor to the endpoint the
\* directory creation, the upload and the reconciliation command resolve it to, a
\* descriptor without ":" included (default principal, default host, the whole string
\* as remote root): an accepted deleted event is removed on that host, as that
\* principal, below that root.
C14_RemovalResolvesTargetLikeTheOthers ==
    (call.op = "on_deleted" /\ Accepted(call.ev) /\ NoFailedConnect)
        => /\ ~raised
           /\ \A k \in 1..Len(targets) :
                 RemovalsAs(trace, HostOf(k), UserOf(k),
                            TargetPath(RootOf(k), call.ev.src_path)) # {}

(***************************************************************************)
(* C15                                                                     *)
(***************************************************************************)

\* positions where the parent directory is ensured for the k-th target
EnsurePositions(tr, k) ==
    {i \in 1..Len(tr) : /\ tr[i].op = "ensure"
                        /\ tr[i].host = HostOf(k)
                        /\ tr[i].path = PathNorm(RootOf(k))}

\* positions of the command cmd on the path p of the host d, wrapped or not
CommandPositions(tr, d, cmd, p) ==
    {i \in 1..Len(tr) : /\ tr[i].op = "exec"
                        /\ tr[i].host = d
                        /\ tr[i].cmd = cmd
                        /\ tr[i].path = p}

\* the order of the upload of one file to the k-th target, p its destination
UploadInOrder(tr, k, p) ==
    /\ \A j \in PutPositions(tr, HostOf(k), p) :
          /\ \E i \in EnsurePositions(tr, k) : i < j
          /\ UserOf(k) # None
                => \E g \in CommandPositions(tr, HostOf(k), "chmod g+w", p) : g < j
    /\ \A g \in CommandPositions(tr, HostOf(k), "chmod g+w", p) :
          /\ UserOf(k) # None
          /\ tr[g].sudo = UserOf(k)
          /\ \E i \in EnsurePositions(tr, k) : i < g
          /\ \A j \in PutPositions(tr, HostOf(k), p) : g < j
    /\ \A x \in CommandPositions(tr, HostOf(k), "chmod +x", p) :
          /\ EndsWith(p, ShSuffix)
          /\ tr[x].sudo = None
          /\ \E j \in PutPositions(tr, HostOf(k), p) : j < x /\ tr[j].ok

\* the upload to the k-th target has all its steps, each once
UploadComplete(tr, k, p) ==
    /\ Cardinality(PutPositions(tr, HostOf(k), p)) = 1
    /\ Cardinality(CommandPositions(tr, HostOf(k), "chmod g+w", p))
          = IF UserOf(k) # None THEN 1 ELSE 0
    /\ Cardinality(CommandPositions(tr, HostOf(k), "chmod +x", p))
          = IF EndsWith(p, ShSuffix) THEN 1 ELSE 0

\* C15: for each target a file upload ensures the parent directory first, then, only
\* for a target with a principal, grants group-write on the destination as that
\* principal, then uploads the file, then, only when the destination ends in ".sh",
\* issues the make-executable command: the grant never follows the upload and the
\* make-executable never precedes it.
C15_UploadStepsInOrder ==
    (call.op \in {"on_created", "on_modified"} /\ ~call.ev.is_directory)
        => \A k \in 1..Len(targets) :
              /\ UploadInOrder(trace, k, TargetPath(RootOf(k), call.ev.src_path))
              /\ (Accepted(call.ev) /\ ~raised)
                    => UploadComplete(trace, k, TargetPath(RootOf(k), call.ev.src_path))

\* a shell script has been uploaded to two targets, one of them with a principal
C15_Witness ==
    /\ call.op = "on_created"
    /\ call.ev.src_path = P_run_sh
    /\ ~raised
    /\ Len(targets) = 2
    /\ UserOf(1) # None
    /\ UserOf(2) = None
    /\ \A k \in 1..Len(targets) :
          UploadComplete(trace, k, TargetPath(RootOf(k), call.ev.src_path))

(***************************************************************************)
(* C16                                                                     *)
(***************************************************************************)

\* positions of the command cmd issued to the host d as the principal u (None: unwrapped)
CommandsAs(tr, d, u, cmd) ==
    {i \in 1..Len(tr) : /\ tr[i].op = "exec"
                        /\ tr[i].host = d
                        /\ tr[i].sudo = u
                        /\ tr[i].cmd = cmd}

\* the k-th target got the command once unwrapped and, if it has a principal, once
\* more as that principal just before; if it has none, never wrapped
WrappedThenUnwrapped(tr, k, cmd) ==
    /\ Cardinality(CommandsAs(tr, HostOf(k), None, cmd)) = 1
    /\ Cardinality({i \in 1..Len(tr) : /\ tr[i].op = "exec"
                                       /\ tr[i].host = HostOf(k)
                                       /\ tr[i].sudo # None
                                       /\ tr[i].cmd = cmd})
          = IF UserOf(k) # None THEN 1 ELSE 0
    /\ \A i \in CommandsAs(tr, HostOf(k), UserOf(k), cmd) :
          UserOf(k) # None
             => /\ i + 1 \in CommandsAs(tr, HostOf(k), None, cmd)
                /\ tr[i + 1].path = tr[i].path
                /\ tr[i + 1].cds = tr[i].cds

\* the invocation recorded in call is a remote operation that went past its tests,
\* and cmd is the command it maps to
MapsTo(cmd) ==
    \/ call.op = "on_deleted" /\ Accepted(call.ev) /\ cmd = RmCommand(call.ev)
    \/ call.op = "on_created" /\ Accepted(call.ev) /\ call.ev.is_directory /\ cmd = "mkdir -p"
    \/ /\ call.op = "reset_targets"
       /\ \E i \in 1..Len(trace) : trace[i].op = "push" /\ trace[i].ok
       /\ cmd = "git"

\* C16: with every session established, each mapped remote command (directory
\* creation, removal, reconciliation chain) is issued to the host of a target with a
\* principal exactly twice, wrapped under privilege elevation for the principal and
\* then unwrapped, and to the host of a target without a principal exactly once,
\* unwrapped.
C16_WrappedThenUnwrappedPerTarget ==
    \A cmd \in {"rm -f", "rm -rf", "mkdir -p", "git"} :
        (MapsTo(cmd) /\ NoFailedConnect)
            => \A k \in 1..Len(targets) : WrappedThenUnwrapped(trace, k, cmd)

(***************************************************************************)
(* C17                                                                     *)
(***************************************************************************)

\* the trace holds a create-directory command to the host d that covers the path p:
\* mkdir -p of p itself or of a directory below p
MkdirCovers(tr, d, p) ==
    \E i \in 1..Len(tr) : /\ tr[i].op = "exec"
                          /\ tr[i].host = d
                          /\ tr[i].cmd = "mkdir -p"
                          /\ IsPrefix(PathParts(p), PathParts(tr[i].path))

\* C17: the presence set of a host only grows: no step, whatever the events, the
\* reconciliations and the failures, removes a path from it, and a path enters the
\* set of a host only in an invocation that has issued to that host a
\* create-directory command covering the path.
C17_PresenceSetOnlyGrows ==
    [][/\ \A d \in DOMAIN _dirs_exists_on_targets :
             /\ d \in DOMAIN _dirs_exists_on_targets'
             /\ _dirs_exists_on_targets[d] \subseteq _dirs_exists_on_targets'[d]
       /\ \A d \in DOMAIN _dirs_exists_on_targets' :
             \A p \in _dirs_exists_on_targets'[d] :
                 Marked(_dirs_exists_on_targets, d, p) \/ MkdirCovers(trace', d, p)]_vars

\* an upload has just created a directory two levels below the root, and the set of
\* the host holds the directory and its parent
C17_Witness ==
    /\ call.op = "on_created"
    /\ call.ev.src_path = P_c_py
    /\ \E d \in DOMAIN _dirs_exists_on_targets :
          /\ d = HostOf(1)
          /\ Cardinality(_dirs_exists_on_targets[d]) >= 2
          /\ MkdirCovers(trace, d, PathJoin(RootOf(1), PathParent(RelativeSrcPath(P_c_py))))

(***************************************************************************)
(* C18                                                                     *)
(***************************************************************************)

\* positions where a session to the host d is established
ConnectPositions(tr, d) == {i \in 1..Len(tr) : tr[i].op = "connect" /\ tr[i].host = d}

\* C18: as long as no session establishment fails, the pool holds one session and
\* one transfer channel per host: a host that has a session keeps it and is never
\* connected to again, a host that gets one is connected to exactly once, and a
\* transfer channel exists only for a host whose session is established and stays.
C18_OneSessionPerHost ==
    [][NoFailedConnect'
          => /\ \A d \in DOMAIN _ssh_clients :
                   /\ d \in DOMAIN _ssh_clients'
                   /\ _ssh_clients'[d] = _ssh_clients[d]
                   /\ ConnectPositions(trace', d) = {}
             /\ \A d \in DOMAIN _ssh_clients' \ DOMAIN _ssh_clients :
                   Cardinality(ConnectPositions(trace', d)) = 1
             /\ \A i \in 1..Len(trace') :
                   trace'[i].op = "connect" => trace'[i].host \in DOMAIN _ssh_clients'
             /\ _scp_clients \subseteq _scp_clients'
             /\ _scp_clients' \subseteq DOMAIN _ssh_clients']_vars

\* an upload to two hosts has used the sessions and the channels that earlier
\* operations had opened
C18_Witness ==
    /\ call.op = "on_modified"
    /\ ~raised
    /\ NoFailedConnect
    /\ Len(targets) = 2
    /\ \A k \in 1..Len(targets) :
          /\ ConnectPositions(trace, HostOf(k)) = {}
          /\ PutPositions(trace, HostOf(k), TargetPath(RootOf(k), call.ev.src_path)) # {}
          /\ HostOf(k) \in _scp_clients

(***************************************************************************)
(* C19                                                                     *)
(***************************************************************************)

\* C19: the decomposition of a moved event keeps the kind of the entry: an accepted
\* moved event for a directory that is handled to its end gives every target a
\* recursive removal of the source path and a directory creation at the destination
\* path, and no file upload.
C19_MovedDirectoryStaysDirectory ==
    (call.op = "on_moved" /\ call.ev.is_directory /\ Accepted(call.ev) /\ ~raised)
        => /\ \A k \in 1..Len(targets) :
                 /\ ExecPositions(trace, HostOf(k), {"rm -rf"},
                                  TargetPath(RootOf(k), call.ev.src_path)) # {}
                 /\ ExecPositions(trace, HostOf(k), {"mkdir -p"},
                                  TargetPath(RootOf(k), call.ev.dest_path)) # {}
           /\ \A i \in 1..Len(trace) : trace[i].op # "put"

(***************************************************************************)
(* C20                                                                     *)
(***************************************************************************)

\* C20: a reconciliation that fails after its push, in a per-target command or in the
\* upload of an untracked file, exits with the suppression flag lowered and with the
\* last reconciled branch at its previous value.
C20_FailureAfterPushRestoresState ==
    [][(/\ call'.op = "reset_targets"
        /\ raised'
        /\ \E i \in 1..Len(trace') : trace'[i].op = "push" /\ trace'[i].ok)
          => /\ ~_ignore_everything'
             /\ _current_branch' = _current_branch]_vars

=============================================================================
